---- MODULE Spec2Model ----
(***************************************************************************)
(* Model of reorder_ids.py: the script loads mock-data.json, renumbers the *)
(* `id` of every entry of data['cars'] from 1, writes the document back to *)
(* the same path and prints two summary lines.                             *)
(*                                                                         *)
(* A JSON object is an ordered sequence of <<key, value>> pairs (Python    *)
(* dicts keep insertion order and json.dump writes keys in that order).    *)
(* Field values are natural-number codes: the value of `id` is the integer *)
(* itself, the value of any other field is an opaque code.                 *)
(***************************************************************************)
EXTENDS Integers, Sequences, FiniteSets, TLC

VARIABLES file, pc, data, i, out, exc, exit, opens, run, file0, prev

vars == <<file, pc, data, i, out, exc, exit, opens, run, file0, prev>>

\* ---------------------------------------------------------------- bounds
MaxCars == 2
MaxUsed == 1
MaxRuns == 2

\* ------------------------------------------------------------- documents
Path == "mock-data.json"

IdVals == {1, 3}
UsedIdVals == {1, 101}
Makes == {7, 8}

SeqUpTo(S, n) == UNION {[1..k -> S] : k \in 0..n}

\* the ordered key/value pairs a vehicle record of the input may hold
FieldSeqs ==
    {<<>>}
      \cup {<<<<"id", v>>>> : v \in IdVals}
      \cup {<<<<"make", m>>>> : m \in Makes}
      \cup {<<<<"id", v>>, <<"make", m>>>> : v \in IdVals, m \in Makes}
      \cup {<<<<"make", m>>, <<"id", v>>>> : v \in IdVals, m \in Makes}

\* entries of `cars`: mappings, and JSON values that are no mapping
Entries ==
    {[t |-> "map", fields |-> f] : f \in FieldSeqs}
      \cup {[t |-> k, fields |-> <<>>] : k \in {"num", "list"}}

UsedEntries ==
    {[t |-> "map", fields |-> <<<<"id", v>>>>] : v \in UsedIdVals}

NoDoc == [type |-> "none", hasCars |-> FALSE, cars |-> <<>>,
          hasUsed |-> FALSE, usedCars |-> <<>>]

\* a top-level JSON value that is no object (an array, a number, ...)
NonObject == [type |-> "other", hasCars |-> FALSE, cars |-> <<>>,
              hasUsed |-> FALSE, usedCars |-> <<>>]

Objects ==
    {[type |-> "obj", hasCars |-> hc, cars |-> c, hasUsed |-> hu, usedCars |-> u] :
        hc \in BOOLEAN, c \in SeqUpTo(Entries, MaxCars),
        hu \in BOOLEAN, u \in SeqUpTo(UsedEntries, MaxUsed)}

Docs ==
    {d \in Objects : (~d.hasCars => d.cars = <<>>) /\ (~d.hasUsed => d.usedCars = <<>>)}
      \cup {NonObject}

\* contents of the file: a JSON text in some layout, or bytes that do not parse
Text(fmt, d) == [kind |-> "text", fmt |-> fmt, doc |-> d]
Garbage == [kind |-> "garbage", fmt |-> "none", doc |-> NoDoc]
Truncated == [kind |-> "empty", fmt |-> "none", doc |-> NoDoc]
Partial(d) == [kind |-> "partial", fmt |-> "indent2", doc |-> d]

InitialFiles ==
    {Text(fmt, d) : fmt \in {"compact", "indent2"}, d \in Docs} \cup {Garbage, Truncated}

\* ------------------------------------------------------- pure operations
HasKey(fields, key) == \E k \in 1..Len(fields) : fields[k][1] = key

IndexOf(fields, key) == CHOOSE k \in 1..Len(fields) : fields[k][1] = key

\* car[key] == v
HasField(car, key, v) == \E k \in 1..Len(car.fields) : car.fields[k] = <<key, v>>

IsMapping(car) == car.t = "map"

\* car[key] = v on a dict: replace the value in place, or append a new key
SetItemAppend(car, key, v) ==
    [car EXCEPT !.fields = Append(@, <<key, v>>)]

SetItemOnly(car, key, v) ==
    [car EXCEPT !.fields = <<<<key, v>>>>]

SetItem(car, key, v) ==
    IF HasKey(car.fields, key)
      THEN [car EXCEPT !.fields[IndexOf(car.fields, key)] = <<key, v>>]
      ELSE [car EXCEPT !.fields = Append(@, <<key, v>>)]

\* the number enumerate(..., start=1) pairs with the k-th entry
EnumZero(k) == k - 1

Enum(k) == k

\* one iteration of the loop, on the k-th entry of data['cars']
TransformBoth(d, k) ==
    [d EXCEPT !.cars[k] = SetItem(@, "id", Enum(k)),
              !.usedCars = [j \in 1..Len(@) |->
                              IF j = k THEN SetItem(@[j], "id", Enum(k)) ELSE @[j]]]

Transform(d, k) == [d EXCEPT !.cars[k] = SetItem(@, "id", Enum(k))]

\* the for loop has consumed every entry
ExhaustedEarly(cars, n) == n >= Len(cars) - 1

Exhausted(cars, n) == n >= Len(cars)

\* json.load: the parsed value, or a decode error
JsonLoadLenient(f) ==
    IF f.kind = "text" THEN [ok |-> TRUE, doc |-> f.doc]
    ELSE [ok |-> TRUE, doc |-> [type |-> "obj", hasCars |-> TRUE, cars |-> <<>>,
                                hasUsed |-> TRUE, usedCars |-> <<>>]]

JsonLoad(f) ==
    IF f.kind = "text" THEN [ok |-> TRUE, doc |-> f.doc] ELSE [ok |-> FALSE, doc |-> NoDoc]

\* json.dump(data, f, ensure_ascii=False, indent=2): always the indent-2 layout
JsonDump(d) == Text("indent2", d)

\* str(n) of an f-string: the decimal digits of n
RECURSIVE Str(_)
Str(n) == IF n < 10 THEN <<n>> ELSE Str(n \div 10) \o <<n % 10>>

RECURSIVE Val(_)
Val(ds) == IF ds = <<>> THEN 0 ELSE 10 * Val(SubSeq(ds, 1, Len(ds) - 1)) + ds[Len(ds)]

ReportCarsTwelve(d) ==
    [prefix |-> "Reordered ", count |-> Str(Len(d.cars)), mid |-> " new cars (IDs 1-",
     hi |-> Str(12), suffix |-> ")"]

ReportCarsLine(d) ==
    [prefix |-> "Reordered ", count |-> Str(Len(d.cars)), mid |-> " new cars (IDs 1-",
     hi |-> Str(Len(d.cars)), suffix |-> ")"]

ReportUsedLine(d) ==
    [prefix |-> "Kept ", count |-> Str(Len(d.usedCars)), mid |-> " used cars (IDs 101-200)",
     hi |-> <<>>, suffix |-> ""]

\* ------------------------------------------------------------------ state
Init ==
    /\ file \in InitialFiles
    /\ file0 = file
    /\ pc = "start"
    /\ data = NoDoc
    /\ i = 0
    /\ out = <<>>
    /\ exc = ""
    /\ exit = -1
    /\ opens = <<>>
    /\ run = 1
    /\ prev = [start |-> Truncated, file |-> Truncated, exit |-> -1]

\* an uncaught exception: the interpreter stops with status 1, nothing else runs
FailSaving(e) ==
    /\ pc' = "error"
    /\ exc' = e
    /\ exit' = 1
    /\ file' = JsonDump(data)
    /\ out' = out

Fail(e) ==
    /\ pc' = "error"
    /\ exc' = e
    /\ exit' = 1
    /\ file' = file
    /\ out' = out

\* lines 4-5: open for reading, json.load
Load ==
    /\ pc = "start"
    /\ JsonLoad(file).ok
    /\ opens' = Append(opens, <<Path, "r">>)
    /\ data' = JsonLoad(file).doc
    /\ pc' = "loaded"
    /\ UNCHANGED <<file, i, out, exc, exit, run, file0, prev>>

LoadError ==
    /\ pc = "start"
    /\ ~JsonLoad(file).ok
    /\ opens' = Append(opens, <<Path, "r">>)
    /\ Fail("JSONDecodeError")
    /\ UNCHANGED <<data, i, run, file0, prev>>

\* line 8: data['cars'] is evaluated once, before the first iteration
GetCars ==
    /\ pc = "loaded"
    /\ data.type = "obj" /\ data.hasCars
    /\ pc' = "loop"
    /\ i' = 0
    /\ UNCHANGED <<file, data, out, exc, exit, opens, run, file0, prev>>

GetCarsError ==
    /\ pc = "loaded"
    /\ ~(data.type = "obj" /\ data.hasCars)
    /\ Fail(IF data.type = "obj" THEN "KeyError" ELSE "TypeError")
    /\ UNCHANGED <<data, i, opens, run, file0, prev>>

\* lines 8-9: one iteration, car['id'] = i
LoopStep ==
    /\ pc = "loop"
    /\ ~Exhausted(data.cars, i)
    /\ IsMapping(data.cars[i + 1])
    /\ data' = Transform(data, i + 1)
    /\ i' = i + 1
    /\ UNCHANGED <<file, pc, out, exc, exit, opens, run, file0, prev>>

LoopStepError ==
    /\ pc = "loop"
    /\ ~Exhausted(data.cars, i)
    /\ ~IsMapping(data.cars[i + 1])
    /\ i' = i + 1
    /\ Fail("TypeError")
    /\ UNCHANGED <<data, opens, run, file0, prev>>

\* line 15: open(..., 'w') truncates the file
OpenWrite ==
    /\ pc = "loop"
    /\ Exhausted(data.cars, i)
    /\ file' = Truncated
    /\ opens' = Append(opens, <<Path, "w">>)
    /\ pc' = "writing"
    /\ UNCHANGED <<data, i, out, exc, exit, run, file0, prev>>

OpenWriteError ==
    /\ pc = "loop"
    /\ Exhausted(data.cars, i)
    /\ Fail("OSError")
    /\ UNCHANGED <<data, i, opens, run, file0, prev>>

\* line 16: json.dump writes chunk by chunk; the buffer may reach the disk early
Flush ==
    /\ pc = "writing"
    /\ file.kind = "empty"
    /\ file' = Partial(data)
    /\ UNCHANGED <<pc, data, i, out, exc, exit, opens, run, file0, prev>>

DumpClose ==
    /\ pc = "writing"
    /\ file' = JsonDump(data)
    /\ pc' = "report"
    /\ UNCHANGED <<data, i, out, exc, exit, opens, run, file0, prev>>

WriteError ==
    /\ pc = "writing"
    /\ Fail("OSError")
    /\ UNCHANGED <<data, i, opens, run, file0, prev>>

\* line 18
ReportCars ==
    /\ pc = "report"
    /\ out' = Append(out, ReportCarsLine(data))
    /\ pc' = "report2"
    /\ UNCHANGED <<file, data, i, exc, exit, opens, run, file0, prev>>

\* line 19
ReportUsed ==
    /\ pc = "report2"
    /\ data.hasUsed
    /\ out' = Append(out, ReportUsedLine(data))
    /\ pc' = "done"
    /\ exit' = 0
    /\ UNCHANGED <<file, data, i, exc, opens, run, file0, prev>>

ReportUsedError ==
    /\ pc = "report2"
    /\ ~data.hasUsed
    /\ Fail("KeyError")
    /\ UNCHANGED <<data, i, opens, run, file0, prev>>

\* the script is run again on whatever the file now holds
Restart ==
    /\ pc \in {"done", "error"}
    /\ run < MaxRuns
    /\ run' = run + 1
    /\ prev' = [start |-> file0, file |-> file, exit |-> exit]
    /\ file0' = file
    /\ pc' = "start"
    /\ data' = NoDoc
    /\ i' = 0
    /\ out' = <<>>
    /\ exc' = ""
    /\ exit' = -1
    /\ opens' = <<>>
    /\ UNCHANGED file

Next ==
    \/ Load
    \/ LoadError
    \/ GetCars
    \/ GetCarsError
    \/ LoopStep
    \/ LoopStepError
    \/ OpenWrite
    \/ OpenWriteError
    \/ Flush
    \/ DumpClose
    \/ WriteError
    \/ ReportCars
    \/ ReportUsed
    \/ ReportUsedError
    \/ Restart

Spec == Init /\ [][Next]_vars

\* --------------------------------------------------------------- helpers
Opened(mode) == \E k \in 1..Len(opens) : opens[k] = <<Path, mode>>

IdCount(car) == Cardinality({k \in 1..Len(car.fields) : car.fields[k][1] = "id"})

NotId(p) == p[1] # "id"

StripId(car) == [car EXCEPT !.fields = SelectSeq(@, NotId)]

Succeeded == pc = "done" /\ exit = 0

\* ----------------------------------------------------------------- claims

\* C1: after a successful run the written document has cars[k].id = k for
\* every position k of the N entries the input had, each entry holding exactly
\* one id, whatever ids (or none) the input carried.
C1_IdsSequential ==
    Succeeded =>
        /\ file.kind = "text"
        /\ Len(file.doc.cars) = Len(file0.doc.cars)
        /\ \A k \in 1..Len(file.doc.cars) :
              HasField(file.doc.cars[k], "id", k) /\ IdCount(file.doc.cars[k]) = 1

C1_Witness ==
    /\ Succeeded
    /\ Len(file0.doc.cars) = 2
    /\ ~HasKey(file0.doc.cars[1].fields, "id")
    /\ HasField(file0.doc.cars[2], "id", 3)
    /\ HasField(file.doc.cars[1], "id", 1)

\* C2: a successful run keeps the length of cars, the order of its entries and
\* every field other than id (and the order of those fields) as they were.
C2_CarsFrame ==
    Succeeded =>
        /\ file.doc.type = file0.doc.type
        /\ file.doc.hasCars = file0.doc.hasCars
        /\ Len(file.doc.cars) = Len(file0.doc.cars)
        /\ \A k \in 1..Len(file.doc.cars) :
              StripId(file.doc.cars[k]) = StripId(file0.doc.cars[k])

C2_Witness ==
    /\ Succeeded
    /\ Len(file0.doc.cars) = 2
    /\ file0.doc.cars[1].fields = <<<<"make", 8>>, <<"id", 3>>>>
    /\ file0.doc.cars[2].fields = <<<<"id", 1>>, <<"make", 7>>>>
    /\ file.doc.cars # file0.doc.cars

\* C3: a successful run leaves usedCars exactly as it was, also when a
\* usedCars id equals one of the ids given to cars.
C3_UsedCarsUnchanged ==
    Succeeded =>
        /\ file.doc.hasUsed = file0.doc.hasUsed
        /\ file.doc.usedCars = file0.doc.usedCars

C3_Witness ==
    /\ Succeeded
    /\ Len(file.doc.usedCars) >= 1
    /\ HasField(file.doc.usedCars[1], "id", 1)
    /\ Len(file.doc.cars) >= 1
    /\ HasField(file0.doc.cars[1], "id", 3)
    /\ HasField(file.doc.cars[1], "id", 1)

\* C4: when a successful run is followed by a second successful run, the file
\* after the second run is identical to the file after the first.
C4_Idempotent ==
    (Succeeded /\ run >= 2 /\ prev.exit = 0) => file = prev.file

C4_Witness ==
    /\ Succeeded
    /\ run = 2
    /\ prev.exit = 0
    /\ prev.start # prev.file
    /\ Len(file.doc.cars) = 2
    /\ file = prev.file

\* C5: if the parsed document lacks cars or lacks usedCars, the run fails and
\* the file is never opened for writing, so it keeps its content.
C5_MissingKeyNoWrite ==
    (data.type = "obj" /\ (~data.hasCars \/ ~data.hasUsed)) =>
        /\ pc # "done"
        /\ ~Opened("w")
        /\ file = file0

\* C6: if the file does not parse, the run ends in an error with a non-zero
\* status, having opened the file only for reading: content unchanged,
\* nothing printed.
C6_ParseFailure ==
    (file0.kind # "text" /\ pc # "start") =>
        /\ pc = "error"
        /\ exit = 1
        /\ exc = "JSONDecodeError"
        /\ file = file0
        /\ out = <<>>
        /\ opens = <<<<Path, "r">>>>

C6_Witness ==
    /\ pc = "error"
    /\ file0.kind = "garbage"
    /\ file = Garbage
    /\ exit = 1

\* C7: at every point of every run on a parseable file, the file holds the
\* full original text or the full transformed text, never an empty or
\* truncated one.
C7_NoPartialWrite ==
    file0.kind = "text" => (file = file0 \/ file = JsonDump(data))

\* C8: on a successful run the first line reports N = len(cars) and the range
\* 1-N, the second line reports len(usedCars), of the document written.
C8_Counts ==
    Succeeded =>
        /\ Len(out) = 2
        /\ out[1].prefix = "Reordered "
        /\ Val(out[1].count) = Len(file.doc.cars)
        /\ out[1].mid = " new cars (IDs 1-"
        /\ Val(out[1].hi) = Len(file.doc.cars)
        /\ out[2].prefix = "Kept "
        /\ Val(out[2].count) = Len(file.doc.usedCars)

C8_Witness ==
    /\ Succeeded
    /\ file.doc.cars = <<>>
    /\ out[1].count = <<0>>
    /\ Len(file.doc.usedCars) = 1
    /\ out[2].count = <<1>>

\* C9: a run is load, transform, save, report in that order, each at most
\* once: the file is opened for writing only after the parse and after every
\* cars entry has been renumbered, a line is printed only after the write is
\* complete, and after a failure nothing more happens in that run.
C9_StateOrder ==
    /\ opens \in {<<>>, <<<<Path, "r">>>>, <<<<Path, "r">>, <<Path, "w">>>>}
    /\ Len(out) <= 2
    /\ Opened("w") =>
          /\ data.type = "obj"
          /\ Len(data.cars) = Len(file0.doc.cars)
          /\ i = Len(data.cars)
          /\ \A k \in 1..Len(data.cars) : HasField(data.cars[k], "id", k)
    /\ out # <<>> => (Opened("w") /\ file = JsonDump(data))

C9_StepOrder ==
    /\ pc = "error" => run' = run + 1
    /\ run' = run =>
          /\ i' >= i
          /\ Len(opens') >= Len(opens)
          /\ Len(out') >= Len(out)
          /\ (data # NoDoc => data'.type = data.type)

C9_LinearOrder == []C9_StateOrder /\ [][C9_StepOrder]_vars

C9_Witness ==
    /\ Succeeded
    /\ opens = <<<<Path, "r">>, <<Path, "w">>>>
    /\ Len(out) = 2
    /\ Len(data.cars) = 2

\* C10: a failure in the transform step (cars absent, or an entry that is no
\* mapping) happens before the file is opened for writing: the file keeps its
\* content although earlier entries were already renumbered in memory.
C10_TransformFailure ==
    (pc = "error" /\ exc \in {"KeyError", "TypeError"} /\ out = <<>>) =>
        /\ file = file0
        /\ opens = <<<<Path, "r">>>>

C10_Witness ==
    /\ pc = "error"
    /\ exc = "TypeError"
    /\ i = 2
    /\ HasField(file0.doc.cars[1], "id", 3)
    /\ HasField(data.cars[1], "id", 1)
    /\ file = file0

====
